---- MODULE Spec2Model ----
(***************************************************************************)
(* A model of src/bot.py: RailwaySpreadsheetMonitor, the spreadsheet       *)
(* poller that filters the rows of the "Sultra-25" sheet, detects newly    *)
(* appended rows by count, and fans a notification out to the configured   *)
(* Telegram chat ids, with a consecutive-error backoff in the polling      *)
(* loop.                                                                   *)
(*                                                                         *)
(* Strings are sequences of one-character strings, so that str.strip,      *)
(* str.isdigit and int() are computed as Python computes them.  A list of  *)
(* dicts is a sequence of records.                                         *)
(***************************************************************************)
EXTENDS Integers, Sequences, FiniteSets, TLC

VARIABLES
    pc,                  \* position of the program (or of the calling harness)
    all_data,            \* the sheet: what worksheet.get_all_values() returns
    chat_ids,            \* self.chat_ids
    previous_row_count,  \* self.previous_row_count
    previous_data,       \* self.previous_data
    current_data,        \* current_data of the tick / argument of the last call
    current_count,       \* current_count of the tick / argument of the last call
    new_entries,         \* value returned by the last find_new_rows call
    exc,                 \* exception of the last call / of the tick: "none" or its name
    error_count,         \* error_count of start_monitoring
    sleep_dur,           \* argument of the time.sleep in progress (0: none yet)
    entry_idx,           \* position in new_entries of the entry being delivered
    chat_idx,            \* position in chat_ids of the next recipient
    success_count,       \* success_count of send_multiple_notifications
    message,             \* notification being fanned out
    outcomes,            \* history: outcome of each send of the current fan-out
    sent,                \* history: <<entry position, chat id>> of each send of the tick
    fetch_failed,        \* history: the tick's fetch raised inside get_sultra25_data
    fails_in_run,        \* history: failed ticks since the last success or cooldown
    count_before,        \* history: previous_row_count when the last call began
    calls,               \* history: number of direct find_new_rows calls made
    repeated,            \* history: the last direct call repeated the arguments of the one before
    any_delivered,       \* history: some send of the tick returned True
    env,                 \* os.environ: the four variables main reads
    io_done,             \* history: a fetch or a send has been made
    append_only,         \* the sheet is only appended to (no row is removed)
    prev_tick,           \* history: how the tick before ended, while the sheet is as it was
    new_pos,             \* history: position in current_data of each entry of new_entries
    baseline,            \* history: count of the initial load (append-only sheet)
    detected,            \* history: positions returned as new so far (append-only sheet)
    fanned,              \* history: positions a fan-out was started for (append-only sheet)
    attempted,           \* history: <<position, index in chat_ids>> of every send so far (append-only sheet)
    again                \* history: a position was returned twice, or a send repeated

vars == <<pc, all_data, chat_ids, previous_row_count, previous_data, current_data,
          current_count, new_entries, exc, error_count, sleep_dur, entry_idx,
          chat_idx, success_count, message, outcomes, sent, fetch_failed,
          fails_in_run, count_before, calls, repeated, any_delivered, env,
          io_done, append_only, prev_tick, new_pos, baseline, detected, fanned,
          attempted, again>>

\* the histories kept by position
track == <<baseline, detected, fanned, attempted, again>>

---------------------------------------------------------------------------
(* Bounds of the model *)

\* data rows below the header region of the sheet
MaxData == 3
\* records in one argument of a direct find_new_rows call
MaxRecs == 3
\* direct find_new_rows calls in a row
MaxCalls == 3
\* configured chat ids
MaxRecipients == 2

---------------------------------------------------------------------------
(* Characters and Python's str methods *)

\* ASCII decimal digits
DecimalDigits == {"1", "2"}
\* a character such as U+00B2: str.isdigit() is True, int() raises ValueError
OtherDigits == {"sup2"}
Whitespace == {" "}

RECURSIVE lstrip(_)
lstrip(s) ==
    IF s # <<>> /\ Head(s) \in Whitespace THEN lstrip(Tail(s)) ELSE s

RECURSIVE rstrip(_)
rstrip(s) ==
    IF s # <<>> /\ s[Len(s)] \in Whitespace
    THEN rstrip(SubSeq(s, 1, Len(s) - 1))
    ELSE s

\* str.strip()
strip(s) == rstrip(lstrip(s))

\* str.isdigit(): non-empty and every character is a digit character
isdigit(s) ==
    /\ s # <<>>
    /\ \A i \in 1..Len(s) : s[i] \in DecimalDigits \cup OtherDigits

\* int(s) returns (TRUE) or raises ValueError (FALSE): surrounding whitespace
\* is dropped and what remains must be decimal digits
int_parses(s) ==
    /\ strip(s) # <<>>
    /\ \A i \in 1..Len(strip(s)) : strip(s)[i] \in DecimalDigits

\* s[-n:] for n >= 0; s[-0:] is s[0:], the whole list
last_n(s, n) ==
    IF n = 0 \/ n >= Len(s) THEN s ELSE SubSeq(s, Len(s) - n + 1, Len(s))

---------------------------------------------------------------------------
(* get_sultra25_data *)

\* first index of the data region: rows at a smaller index are skipped
HeaderRows == 3
\* cells a row needs
MinCells == 8

has_number(row) ==
    Len(row) > 0 /\ row[1] # <<>> /\ strip(row[1]) # <<>> /\ isdigit(row[1])

has_customer(row) ==
    Len(row) > 5 /\ row[6] # <<>> /\ strip(row[6]) # <<>>

relevant_entry(row) ==
    [no            |-> row[1],
     customer_name |-> row[6],
     segment       |-> IF Len(row) > 6 THEN row[7] ELSE <<>>,
     am_hotda      |-> IF Len(row) > 7 THEN row[8] ELSE <<>>]

\* the test of one (i, row) of enumerate(all_data); i counts from 0
row_is_relevant(i, row) ==
    /\ i >= HeaderRows
    /\ Len(row) >= MinCells
    /\ has_number(row)
    /\ has_customer(row)

\* the loop over enumerate(data), from index i on
RECURSIVE relevant_from(_, _)
relevant_from(data, i) ==
    IF i >= Len(data) THEN <<>>
    ELSE (IF row_is_relevant(i, data[i + 1])
          THEN <<relevant_entry(data[i + 1])>>
          ELSE <<>>) \o relevant_from(data, i + 1)

\* get_sultra25_data without its except clause: the exception of the fetch
\* leaves the function
get_sultra25_data_uncaught(fetched, data) ==
    IF fetched
    THEN [data  |-> relevant_from(data, 0),
          count |-> Len(relevant_from(data, 0)),
          exc   |-> "none"]
    ELSE [data |-> <<>>, count |-> 0, exc |-> "APIError"]

\* The pair returned, and the exception that leaves the function ("none":
\* the except clause catches every exception).  fetched is FALSE when
\* open_by_url, worksheet or get_all_values raised.
get_sultra25_data(fetched, data) ==
    IF fetched
    THEN [data  |-> relevant_from(data, 0),
          count |-> Len(relevant_from(data, 0)),
          exc   |-> "none"]
    ELSE [data |-> <<>>, count |-> 0, exc |-> "none"]

---------------------------------------------------------------------------
(* find_new_rows *)

\* find_new_rows with >= for > in the comparison of the counts
find_new_rows_ge(prev_count, data, row_count) ==
    IF prev_count = 0
    THEN [count |-> row_count, data |-> data, ret |-> <<>>,
          exc   |-> IF data # <<>> /\ ~int_parses(data[Len(data)].no)
                    THEN "ValueError" ELSE "none"]
    ELSE [count |-> row_count, data |-> data,
          ret   |-> IF row_count >= prev_count
                    THEN last_n(data, row_count - prev_count)
                    ELSE <<>>,
          exc   |-> "none"]

\* find_new_rows with the two assignments at its end moved into the if
find_new_rows_lazy(prev_count, data, row_count) ==
    IF prev_count = 0
    THEN [count |-> row_count, data |-> data, ret |-> <<>>,
          exc   |-> IF data # <<>> /\ ~int_parses(data[Len(data)].no)
                    THEN "ValueError" ELSE "none"]
    ELSE IF row_count > prev_count
         THEN [count |-> row_count, data |-> data,
               ret   |-> last_n(data, row_count - prev_count), exc |-> "none"]
         ELSE [count |-> prev_count, data |-> previous_data, ret |-> <<>>,
               exc   |-> "none"]

\* find_new_rows slicing current_data[:new_row_count]: the first records
\* instead of the last
find_new_rows_head(prev_count, data, row_count) ==
    IF prev_count = 0
    THEN [count |-> row_count,
          data  |-> data,
          ret   |-> <<>>,
          exc   |-> IF data # <<>> /\ ~int_parses(data[Len(data)].no)
                    THEN "ValueError" ELSE "none"]
    ELSE [count |-> row_count,
          data  |-> data,
          ret   |-> IF row_count > prev_count
                    THEN SubSeq(data, 1, row_count - prev_count)
                    ELSE <<>>,
          exc   |-> "none"]

\* find_new_rows returning the delta without lines 137-138: the retained
\* count stays as it was
find_new_rows_stale(prev_count, data, row_count) ==
    IF prev_count = 0
    THEN [count |-> row_count,
          data  |-> data,
          ret   |-> <<>>,
          exc   |-> IF data # <<>> /\ ~int_parses(data[Len(data)].no)
                    THEN "ValueError" ELSE "none"]
    ELSE [count |-> prev_count,
          data  |-> data,
          ret   |-> IF row_count > prev_count
                    THEN last_n(data, row_count - prev_count)
                    ELSE <<>>,
          exc   |-> "none"]

\* find_new_rows returning the delta newest first
find_new_rows_reversed(prev_count, data, row_count) ==
    IF prev_count = 0
    THEN [count |-> row_count,
          data  |-> data,
          ret   |-> <<>>,
          exc   |-> IF data # <<>> /\ ~int_parses(data[Len(data)].no)
                    THEN "ValueError" ELSE "none"]
    ELSE [count |-> row_count,
          data  |-> data,
          ret   |-> IF row_count > prev_count
                    THEN LET t == last_n(data, row_count - prev_count)
                         IN [i \in 1..Len(t) |-> t[Len(t) + 1 - i]]
                    ELSE <<>>,
          exc   |-> "none"]

\* The call on a monitor whose previous_row_count is prev_count: the values
\* left in previous_row_count (count) and previous_data (data), the value
\* returned (ret) and the exception raised instead ("none": it returned).
\* On the previous_row_count == 0 path both fields are assigned before
\* int(last_number) is evaluated for the log line.
find_new_rows(prev_count, data, row_count) ==
    IF prev_count = 0
    THEN [count |-> row_count,
          data  |-> data,
          ret   |-> <<>>,
          exc   |-> IF data # <<>> /\ ~int_parses(data[Len(data)].no)
                    THEN "ValueError" ELSE "none"]
    ELSE [count |-> row_count,
          data  |-> data,
          ret   |-> IF row_count > prev_count
                    THEN last_n(data, row_count - prev_count)
                    ELSE <<>>,
          exc   |-> "none"]

---------------------------------------------------------------------------
(* format_notification, send_telegram_message, send_multiple_notifications *)

\* the text built from the four fields of the entry and the fixed status
format_notification(entry) ==
    <<"Ada LOP baru dari Sultra-25", entry.no, entry.customer_name,
      entry.segment, entry.am_hotda, "LOP Baru">>

\* what requests.post does for one recipient
Outcomes == {"ok200", "non200", "Timeout", "ConnectionError"}

\* exception names that requests.post raises
PostRaises == {"Timeout", "ConnectionError"}

\* send_telegram_message without its except clause
send_telegram_message_uncaught(outcome) ==
    [ret |-> outcome = "ok200",
     exc |-> IF outcome \in PostRaises THEN outcome ELSE "none"]

\* the call for one recipient: the value returned, and the exception that
\* leaves the function ("none": every exception of the post is caught)
send_telegram_message(outcome) ==
    [ret |-> outcome = "ok200", exc |-> "none"]

\* success_count after the loop body for one chat id
count_success(count, ok) ==
    IF ok THEN count + 1 ELSE count

\* the for loop with a break in its else branch
next_chat_abort(idx, ok) ==
    IF ok THEN idx + 1 ELSE Len(chat_ids) + 1

\* position of the recipient the for loop takes next
next_chat(idx, ok) ==
    idx + 1

---------------------------------------------------------------------------
(* start_monitoring: the sleeps and the error counter *)

\* time.sleep after a tick that raised nothing
NormalInterval == 15
\* time.sleep after a tick that raised, below the threshold
RetryInterval == 60
\* time.sleep at the threshold
Cooldown == 300
\* error_count at which the cooldown is taken
ErrorThreshold == 5

\* the threshold test with > for >=
too_many_errors_gt(count) ==
    count > ErrorThreshold

\* the except branch, entered with the incremented counter
too_many_errors(count) ==
    count >= ErrorThreshold

\* the try body without its error_count = 0
count_after_success_keep(count) ==
    count

\* error_count after the try body ran to its end
count_after_success(count) ==
    0

\* the cooldown without the reset of the counter
count_after_cooldown_keep(count) ==
    count

\* error_count = 0 after time.sleep(300)
count_after_cooldown(count) ==
    0

\* a loop that ends after the cooldown
loop_top_once(slept) ==
    IF slept = "sleep_cooldown" THEN "exit" ELSE "fetch"

\* while True: after any sleep, the next statement is the fetch
loop_top(slept) ==
    "fetch"

Sleeping == {"sleep_ok", "sleep_retry", "sleep_cooldown"}

---------------------------------------------------------------------------
(* Inputs: cells, rows, sheets, records, configurations *)

Empty == <<>>
One == <<"1">>
TwoOne == <<"2", "1">>
PaddedOne == <<" ", "1">>
SuperTwo == <<"sup2">>
Name == <<"a">>
PaddedName == <<" ", "a">>
Blank == <<" ">>

\* a row of eight cells
Row8(c0, c5, c6, c7) == <<c0, Empty, Empty, Empty, Empty, c5, c6, c7>>

\* rows used where the content of the row matters
RowKinds ==
    { Row8(One, Name, Name, Name),
      Row8(TwoOne, PaddedName, Empty, Empty),
      Row8(PaddedOne, Name, Name, Name),
      Row8(SuperTwo, Name, Name, Name),
      Row8(Name, Name, Name, Name),
      Row8(Empty, Name, Name, Name),
      Row8(One, Blank, Name, Name),
      Row8(One, Empty, Name, Name),
      <<One, Empty, Empty, Empty, Empty, Name, Name>>,
      <<One, Empty, Empty, Empty, Empty, Name, Name, Name, Name>>,
      <<>> }

\* rows used for the header region
HeaderKinds == { Row8(One, Name, Name, Name), <<>> }

\* the sheet of the polling loop before any data row: a title region of
\* HeaderRows rows, one of which looks like a data row
HeaderSheet == << <<>>, Row8(One, Name, Name, Name), Row8(Name, Name, Empty, Empty) >>

\* data rows written to the sheet of the polling loop
LoopRows ==
    { Row8(One, Name, Name, Name),
      Row8(SuperTwo, Name, Name, Name),
      Row8(Name, Name, Name, Name) }

\* entries handed to find_new_rows when it is called directly
RecKinds ==
    { relevant_entry(Row8(One, Name, Name, Name)),
      relevant_entry(Row8(TwoOne, PaddedName, Empty, Empty)),
      relevant_entry(Row8(SuperTwo, Name, Name, Name)) }

\* TELEGRAM_CHAT_IDS: a JSON list; "[]" passes validate_config
ChatConfigs == { [i \in 1..n |-> i] : n \in 0..MaxRecipients }

---------------------------------------------------------------------------
(* The polling loop *)

\* the monitor after __init__, and the locals and histories before any step
Constructed ==
    /\ previous_row_count = 0
    /\ previous_data = <<>>
    /\ current_data = <<>>
    /\ current_count = 0
    /\ new_entries = <<>>
    /\ exc = "none"
    /\ error_count = 0
    /\ sleep_dur = 0
    /\ entry_idx = 1
    /\ chat_idx = 1
    /\ success_count = 0
    /\ message = <<>>
    /\ outcomes = <<>>
    /\ sent = <<>>
    /\ fetch_failed = FALSE
    /\ fails_in_run = 0
    /\ count_before = 0
    /\ calls = 0
    /\ repeated = FALSE
    /\ any_delivered = FALSE
    /\ io_done = FALSE
    /\ prev_tick = "none"
    /\ new_pos = <<>>
    /\ baseline = 0
    /\ detected = {}
    /\ fanned = {}
    /\ attempted = {}
    /\ again = FALSE

\* os.getenv of one variable: None, the empty string, or a value; a value
\* that must be JSON is well formed or not
Unset == "unset"
EmptyString == "empty"
Malformed == "malformed"
Given == "set"

\* the four variables debug_environment reads; ids is the list that
\* TELEGRAM_CHAT_IDS holds when it is well-formed JSON ("[]" is one of them)
Envs ==
    { [token |-> t, chat |-> c, ids |-> l, url |-> u, creds |-> g] :
        t \in {Unset, EmptyString, Given},
        c \in {Unset, EmptyString, Malformed, Given},
        l \in ChatConfigs,
        u \in {Unset, EmptyString, Given},
        g \in {Unset, EmptyString, Malformed, Given} }

\* an environment with every variable given and well formed
GoodEnv(ids) ==
    [token |-> Given, chat |-> Given, ids |-> ids, url |-> Given, creds |-> Given]

\* `not v`: None and "" are falsy
falsy(v) ==
    v \in {Unset, EmptyString}

\* json.loads(TELEGRAM_CHAT_IDS) if it is truthy else []
load_chat_ids(e) ==
    IF falsy(e.chat) THEN [ids |-> <<>>, exc |-> "none"]
    ELSE IF e.chat = Malformed THEN [ids |-> <<>>, exc |-> "JSONDecodeError"]
    ELSE [ids |-> e.ids, exc |-> "none"]

\* validate_config with `v is None` in place of `not v`
validate_config_none_only(e) ==
    IF Unset \in {e.token, e.chat, e.url, e.creds}
    THEN "ValueError"
    ELSE "none"

\* missing = [k for k, v in debug_vars.items() if not v]; raise if any
validate_config(e) ==
    IF falsy(e.token) \/ falsy(e.chat) \/ falsy(e.url) \/ falsy(e.creds)
    THEN "ValueError"
    ELSE "none"

\* json.loads of the credentials, then the authorization, which may fail;
\* every exception is raised again
setup_google_sheets(e, authorized) ==
    IF e.creds # Given THEN "JSONDecodeError"
    ELSE IF ~authorized THEN "AuthError"
    ELSE "none"

\* main, after RailwaySpreadsheetMonitor() returned
Init ==
    /\ pc = "initial_load"
    /\ all_data = HeaderSheet
    /\ chat_ids \in ChatConfigs
    /\ env = GoodEnv(chat_ids)
    /\ append_only = FALSE
    /\ Constructed

\* main before RailwaySpreadsheetMonitor(), in any environment
InitMain ==
    /\ pc = "main"
    /\ all_data = HeaderSheet
    /\ chat_ids = <<>>
    /\ env \in Envs
    /\ append_only = FALSE
    /\ Constructed

\* RailwaySpreadsheetMonitor(): __init__ reads the variables, validates
\* them and sets up the client; an exception leaves main through exit(1)
Construct(authorized) ==
    /\ pc = "main"
    /\ LET l == load_chat_ids(env)
           raised == IF l.exc # "none" THEN l.exc
                     ELSE IF validate_config(env) # "none" THEN validate_config(env)
                     ELSE setup_google_sheets(env, authorized)
       IN
        /\ chat_ids' = l.ids
        /\ exc' = raised
        /\ pc' = IF raised = "none" THEN "initial_load" ELSE "exit"
    /\ UNCHANGED <<all_data, previous_row_count, previous_data, current_data,
                   current_count, new_entries, error_count, sleep_dur,
                   entry_idx, chat_idx, success_count, message, outcomes, sent,
                   fetch_failed, fails_in_run, count_before, calls, repeated,
                   any_delivered, env, io_done, append_only, prev_tick, new_pos,
                   track>>

\* Someone edits the sheet.  The program reads the sheet in one
\* get_all_values call, so an edit at any other moment is an edit before the
\* next fetch: edits are taken right before a fetch.
SheetAppend(row) ==
    /\ pc \in {"initial_load", "fetch"}
    /\ Len(all_data) < HeaderRows + MaxData
    /\ all_data' = Append(all_data, row)
    /\ UNCHANGED <<pc, chat_ids, previous_row_count, previous_data, current_data,
                   current_count, new_entries, exc, error_count, sleep_dur,
                   entry_idx, chat_idx, success_count, message, outcomes, sent,
                   fetch_failed, fails_in_run, count_before, calls, repeated, any_delivered>>
    /\ prev_tick' = IF prev_tick = "aborted" THEN "edited" ELSE prev_tick
    /\ UNCHANGED <<env, io_done, append_only, new_pos, track>>

SheetRemove ==
    /\ pc \in {"initial_load", "fetch"}
    /\ ~append_only
    /\ Len(all_data) > HeaderRows
    /\ all_data' = SubSeq(all_data, 1, Len(all_data) - 1)
    /\ UNCHANGED <<pc, chat_ids, previous_row_count, previous_data, current_data,
                   current_count, new_entries, exc, error_count, sleep_dur,
                   entry_idx, chat_idx, success_count, message, outcomes, sent,
                   fetch_failed, fails_in_run, count_before, calls, repeated, any_delivered>>
    /\ prev_tick' = IF prev_tick = "aborted" THEN "edited" ELSE prev_tick
    /\ UNCHANGED <<env, io_done, append_only, new_pos, track>>

\* start_monitoring up to the while loop; an exception here leaves
\* start_monitoring and main exits
InitialLoad(fetched) ==
    /\ pc = "initial_load"
    /\ LET r == get_sultra25_data(fetched, all_data) IN
        IF r.exc # "none"
        THEN /\ exc' = r.exc
             /\ pc' = "exit"
             /\ UNCHANGED <<previous_row_count, previous_data, error_count>>
        ELSE /\ previous_row_count' = r.count
             /\ previous_data' = r.data
             /\ error_count' = 0
             /\ pc' = "fetch"
             /\ UNCHANGED exc
    /\ UNCHANGED <<all_data, chat_ids, current_data, current_count, new_entries,
                   sleep_dur, entry_idx, chat_idx, success_count, message,
                   outcomes, sent, fetch_failed, fails_in_run, count_before,
                   calls, repeated, any_delivered>>
    /\ io_done' = TRUE
    /\ baseline' = IF append_only
                   THEN get_sultra25_data(fetched, all_data).count
                   ELSE baseline
    /\ UNCHANGED <<env, append_only, prev_tick, new_pos, detected, fanned,
                   attempted, again>>

\* current_data, current_count = self.get_sultra25_data()
Fetch(fetched) ==
    /\ pc = "fetch"
    /\ LET r == get_sultra25_data(fetched, all_data) IN
        IF r.exc # "none"
        THEN /\ exc' = r.exc
             /\ pc' = "except"
             /\ UNCHANGED <<current_data, current_count>>
        ELSE /\ current_data' = r.data
             /\ current_count' = r.count
             /\ pc' = "detect"
             /\ UNCHANGED exc
    /\ fetch_failed' = ~fetched
    /\ UNCHANGED <<all_data, chat_ids, previous_row_count, previous_data,
                   new_entries, error_count, sleep_dur, entry_idx, chat_idx,
                   success_count, message, outcomes, sent, fails_in_run,
                   count_before, calls, repeated, any_delivered>>
    /\ io_done' = TRUE
    /\ UNCHANGED <<env, append_only, prev_tick, new_pos, track>>

\* new_entries = self.find_new_rows(current_data, current_count)
Detect ==
    /\ pc = "detect"
    /\ LET r == find_new_rows(previous_row_count, current_data, current_count) IN
        /\ previous_row_count' = r.count
        /\ previous_data' = r.data
        /\ exc' = r.exc
        /\ new_entries' = IF r.exc = "none" THEN r.ret ELSE new_entries
        /\ pc' = IF r.exc # "none" THEN "except"
                 ELSE IF r.ret = <<>> THEN "tick_ok" ELSE "deliver"
    /\ count_before' = previous_row_count
    /\ entry_idx' = 1
    /\ UNCHANGED <<all_data, chat_ids, current_data, current_count, error_count,
                   sleep_dur, chat_idx, success_count, message, outcomes, sent,
                   fetch_failed, fails_in_run, calls, repeated, any_delivered>>
    /\ LET tagged == [i \in 1..Len(current_data) |->
                          [no |-> current_data[i].no, pos |-> i]]
           r == find_new_rows(previous_row_count, tagged, current_count)
           found == IF r.exc = "none"
                    THEN [i \in 1..Len(r.ret) |-> r.ret[i].pos]
                    ELSE <<>>
           positions == { found[i] : i \in 1..Len(found) }
       IN
        /\ new_pos' = found
        /\ detected' = IF append_only THEN detected \cup positions ELSE detected
        /\ again' = (again \/ (append_only /\ positions \cap detected # {}))
    /\ UNCHANGED <<env, io_done, append_only, prev_tick, baseline, fanned, attempted>>

\* A statement of the try body raises an exception that no callee catches
\* (MemoryError, an exception out of a logging call, ...): before
\* find_new_rows runs, or before an entry is formatted.
TickFault ==
    /\ pc \in {"detect", "deliver"}
    /\ exc' = "Fault"
    /\ pc' = "except"
    /\ UNCHANGED <<all_data, chat_ids, previous_row_count, previous_data,
                   current_data, current_count, new_entries, error_count,
                   sleep_dur, entry_idx, chat_idx, success_count, message,
                   outcomes, sent, fetch_failed, fails_in_run, count_before, calls, repeated, any_delivered>>
    /\ UNCHANGED <<env, io_done, append_only, prev_tick, new_pos, track>>

\* for entry in new_entries: format it and enter send_multiple_notifications
StartEntry ==
    /\ pc = "deliver"
    /\ entry_idx <= Len(new_entries)
    /\ message' = format_notification(new_entries[entry_idx])
    /\ success_count' = 0
    /\ chat_idx' = 1
    /\ outcomes' = <<>>
    /\ pc' = "fanout"
    /\ UNCHANGED <<all_data, chat_ids, previous_row_count, previous_data,
                   current_data, current_count, new_entries, exc, error_count,
                   sleep_dur, entry_idx, sent, fetch_failed, fails_in_run,
                   count_before, calls, repeated, any_delivered>>
    /\ fanned' = IF append_only THEN fanned \cup {new_pos[entry_idx]} ELSE fanned
    /\ UNCHANGED <<env, io_done, append_only, prev_tick, new_pos, baseline,
                   detected, attempted, again>>

\* one pass of the for loop of send_multiple_notifications
Send(outcome) ==
    /\ pc = "fanout"
    /\ chat_idx <= Len(chat_ids)
    /\ outcomes' = Append(outcomes, outcome)
    /\ sent' = Append(sent, <<entry_idx, chat_ids[chat_idx]>>)
    /\ LET r == send_telegram_message(outcome) IN
        IF r.exc # "none"
        THEN /\ exc' = r.exc
             /\ pc' = "except"
             /\ UNCHANGED <<success_count, chat_idx, any_delivered>>
        ELSE /\ success_count' = count_success(success_count, r.ret)
             /\ chat_idx' = next_chat(chat_idx, r.ret)
             /\ any_delivered' = (any_delivered \/ r.ret)
             /\ UNCHANGED <<exc, pc>>
    /\ UNCHANGED <<all_data, chat_ids, previous_row_count, previous_data,
                   current_data, current_count, new_entries, error_count,
                   sleep_dur, entry_idx, message, fetch_failed, fails_in_run,
                   count_before, calls, repeated>>
    /\ io_done' = TRUE
    /\ LET pair == <<new_pos[entry_idx], chat_idx>> IN
        /\ attempted' = IF append_only THEN attempted \cup {pair} ELSE attempted
        /\ again' = (again \/ (append_only /\ pair \in attempted))
    /\ UNCHANGED <<env, append_only, prev_tick, new_pos, baseline, detected, fanned>>

\* return success_count, the log line of the tick, and the next entry
FanoutReturn ==
    /\ pc = "fanout"
    /\ chat_idx > Len(chat_ids)
    /\ entry_idx' = entry_idx + 1
    /\ pc' = IF entry_idx + 1 > Len(new_entries) THEN "tick_ok" ELSE "deliver"
    /\ UNCHANGED <<all_data, chat_ids, previous_row_count, previous_data,
                   current_data, current_count, new_entries, exc, error_count,
                   sleep_dur, chat_idx, success_count, message, outcomes, sent,
                   fetch_failed, fails_in_run, count_before, calls, repeated, any_delivered>>
    /\ UNCHANGED <<env, io_done, append_only, prev_tick, new_pos, track>>

\* error_count = 0; time.sleep(15)
TickOk ==
    /\ pc = "tick_ok"
    /\ error_count' = count_after_success(error_count)
    /\ fails_in_run' = 0
    /\ sleep_dur' = NormalInterval
    /\ pc' = "sleep_ok"
    /\ UNCHANGED <<all_data, chat_ids, previous_row_count, previous_data,
                   current_data, current_count, new_entries, exc, entry_idx,
                   chat_idx, success_count, message, outcomes, sent,
                   fetch_failed, count_before, calls, repeated, any_delivered>>
    /\ UNCHANGED <<env, io_done, append_only, prev_tick, new_pos, track>>

\* except Exception: error_count += 1, and the sleep of the branch taken
Except ==
    /\ pc = "except"
    /\ error_count' = error_count + 1
    /\ fails_in_run' = fails_in_run + 1
    /\ IF too_many_errors(error_count + 1)
       THEN sleep_dur' = Cooldown /\ pc' = "sleep_cooldown"
       ELSE sleep_dur' = RetryInterval /\ pc' = "sleep_retry"
    /\ UNCHANGED <<all_data, chat_ids, previous_row_count, previous_data,
                   current_data, current_count, new_entries, exc, entry_idx,
                   chat_idx, success_count, message, outcomes, sent,
                   fetch_failed, count_before, calls, repeated, any_delivered>>
    /\ UNCHANGED <<env, io_done, append_only, prev_tick, new_pos, track>>

\* The sleep ends; after the cooldown, error_count = 0; then the top of the
\* while loop.  Nothing reads the locals of the tick that ended before the
\* next tick assigns them: they and the history of the tick are cleared.
Wake ==
    /\ pc \in Sleeping
    /\ error_count' = IF pc = "sleep_cooldown"
                      THEN count_after_cooldown(error_count)
                      ELSE error_count
    /\ fails_in_run' = IF sleep_dur = Cooldown THEN 0 ELSE fails_in_run
    /\ sleep_dur' = 0
    /\ pc' = loop_top(pc)
    /\ current_data' = <<>>
    /\ current_count' = 0
    /\ new_entries' = <<>>
    /\ exc' = "none"
    /\ entry_idx' = 1
    /\ chat_idx' = 1
    /\ success_count' = 0
    /\ message' = <<>>
    /\ outcomes' = <<>>
    /\ sent' = <<>>
    /\ fetch_failed' = FALSE
    /\ count_before' = 0
    /\ any_delivered' = FALSE
    /\ UNCHANGED <<all_data, chat_ids, previous_row_count, previous_data, calls,
                   repeated>>
    /\ prev_tick' = IF fetch_failed THEN "fetch_failed"
                    ELSE IF exc = "Fault" /\ entry_idx <= Len(new_entries)
                         THEN "aborted"
                         ELSE "other"
    /\ new_pos' = <<>>
    /\ UNCHANGED <<env, io_done, append_only, track>>

Next ==
    \/ \E row \in LoopRows : SheetAppend(row)
    \/ SheetRemove
    \/ \E fetched \in BOOLEAN : InitialLoad(fetched)
    \/ \E fetched \in BOOLEAN : Fetch(fetched)
    \/ Detect
    \/ TickFault
    \/ StartEntry
    \/ \E outcome \in Outcomes : Send(outcome)
    \/ FanoutReturn
    \/ TickOk
    \/ Except
    \/ Wake

Spec == Init /\ [][Next]_vars

\* a statement of start_monitoring or of a method it calls
Step ==
    \/ \E fetched \in BOOLEAN : InitialLoad(fetched)
    \/ \E fetched \in BOOLEAN : Fetch(fetched)
    \/ Detect
    \/ TickFault
    \/ StartEntry
    \/ \E outcome \in Outcomes : Send(outcome)
    \/ FanoutReturn
    \/ TickOk
    \/ Except
    \/ Wake

\* The interpreter keeps running the thread, and every blocking call
\* (get_all_values, requests.post with its timeout, time.sleep) returns or
\* raises: the program takes its next step.  Nothing is assumed of the
\* sheet's editors or of which calls fail.
SpecLive == Init /\ [][Next]_vars /\ WF_vars(Step)

\* main from its first statement
NextMain ==
    \/ \E authorized \in BOOLEAN : Construct(authorized)
    \/ Next

SpecMain == InitMain /\ [][NextMain]_vars

\* the loop on a sheet that is only appended to: rows stay where they are,
\* and each record is known by its position among the relevant records
InitAppend ==
    /\ pc = "initial_load"
    /\ all_data = HeaderSheet
    /\ chat_ids \in ChatConfigs
    /\ env = GoodEnv(chat_ids)
    /\ append_only = TRUE
    /\ Constructed

NextAppend ==
    \/ \E row \in LoopRows : SheetAppend(row)
    \/ \E fetched \in BOOLEAN : InitialLoad(fetched)
    \/ \E fetched \in BOOLEAN : Fetch(fetched)
    \/ Detect
    \/ TickFault
    \/ StartEntry
    \/ \E outcome \in Outcomes : Send(outcome)
    \/ FanoutReturn
    \/ TickOk
    \/ Except
    \/ Wake

SpecAppend == InitAppend /\ [][NextAppend]_vars

\* the loop on a sheet that is only appended to, when every get_all_values
\* call returns and nothing but the program's own statements raises
NextGood ==
    \/ \E row \in LoopRows : SheetAppend(row)
    \/ InitialLoad(TRUE)
    \/ Fetch(TRUE)
    \/ Detect
    \/ StartEntry
    \/ \E outcome \in Outcomes : Send(outcome)
    \/ FanoutReturn
    \/ TickOk
    \/ Except
    \/ Wake

SpecGood == InitAppend /\ [][NextGood]_vars

---------------------------------------------------------------------------
(* find_new_rows called directly on a fresh monitor, any arguments *)

\* the sequences over S of length at most n
SeqUpTo(S, n) == UNION { [1..k -> S] : k \in 0..n }

InitDetect ==
    /\ pc = "call_find_new_rows"
    /\ all_data = <<>>
    /\ chat_ids = <<>>
    /\ env = GoodEnv(<<>>)
    /\ append_only = FALSE
    /\ Constructed

\* find_new_rows(records, len(records)); a call that raises returns nothing
DetectCall(records) ==
    /\ pc = "call_find_new_rows"
    /\ calls < MaxCalls
    /\ LET r == find_new_rows(previous_row_count, records, Len(records)) IN
        /\ previous_row_count' = r.count
        /\ previous_data' = r.data
        /\ exc' = r.exc
        /\ new_entries' = IF r.exc = "none" THEN r.ret ELSE new_entries
    /\ current_data' = records
    /\ current_count' = Len(records)
    /\ count_before' = previous_row_count
    /\ repeated' = (calls >= 1 /\ records = current_data)
    /\ calls' = calls + 1
    /\ UNCHANGED <<pc, all_data, chat_ids, error_count, sleep_dur, entry_idx,
                   chat_idx, success_count, message, outcomes, sent,
                   fetch_failed, fails_in_run, any_delivered>>
    /\ UNCHANGED <<env, io_done, append_only, prev_tick, new_pos, track>>

NextDetect ==
    \E records \in SeqUpTo(RecKinds, MaxRecs) : DetectCall(records)

SpecDetect == InitDetect /\ [][NextDetect]_vars

---------------------------------------------------------------------------
(* get_sultra25_data called on any sheet *)

InitFilter ==
    /\ pc = "filter_input"
    /\ all_data = <<>>
    /\ chat_ids = <<>>
    /\ env = GoodEnv(<<>>)
    /\ append_only = FALSE
    /\ Constructed

\* the next row of the sheet handed to the call
FilterInput(row) ==
    /\ pc = "filter_input"
    /\ Len(all_data) < HeaderRows + MaxData
    /\ all_data' = Append(all_data, row)
    /\ UNCHANGED <<pc, chat_ids, previous_row_count, previous_data, current_data,
                   current_count, new_entries, exc, error_count, sleep_dur,
                   entry_idx, chat_idx, success_count, message, outcomes, sent,
                   fetch_failed, fails_in_run, count_before, calls, repeated,
                   any_delivered>>
    /\ UNCHANGED <<env, io_done, append_only, prev_tick, new_pos, track>>

\* relevant_data, count = get_sultra25_data() with a fetch that succeeds
FilterCall ==
    /\ pc = "filter_input"
    /\ LET r == get_sultra25_data(TRUE, all_data) IN
        /\ current_data' = r.data
        /\ current_count' = r.count
        /\ exc' = r.exc
    /\ pc' = "filter_done"
    /\ UNCHANGED <<all_data, chat_ids, previous_row_count, previous_data,
                   new_entries, error_count, sleep_dur, entry_idx, chat_idx,
                   success_count, message, outcomes, sent, fetch_failed,
                   fails_in_run, count_before, calls, repeated, any_delivered>>
    /\ UNCHANGED <<env, io_done, append_only, prev_tick, new_pos, track>>

NextFilter ==
    \/ \E row \in (IF Len(all_data) < HeaderRows THEN HeaderKinds ELSE RowKinds) :
          FilterInput(row)
    \/ FilterCall

SpecFilter == InitFilter /\ [][NextFilter]_vars

---------------------------------------------------------------------------
(* Claims about find_new_rows, checked under SpecDetect *)

\* C1 (as claimed): on a call after the baseline was recorded, with P the
\* retained count (0 included) and C the number of records handed in, a call
\* that returns returns the last C - P records in order when C > P and the
\* empty sequence when C <= P.
C1_DeltaCorrectness ==
    (pc = "call_find_new_rows" /\ calls >= 2 /\ exc = "none") =>
        new_entries = IF current_count > count_before
                      THEN SubSeq(current_data, count_before + 1, current_count)
                      ELSE <<>>

\* C2 (as claimed): the first call on a freshly constructed monitor returns
\* the empty sequence for every input of N records and leaves
\* previous_row_count = N.
C2_BaselineSuppression ==
    (pc = "call_find_new_rows" /\ calls = 1) =>
        /\ exc = "none"
        /\ new_entries = <<>>
        /\ previous_row_count = current_count

\* C3: a call that repeats the (records, count) of the call before it
\* returns the empty sequence and leaves previous_row_count and
\* previous_data as they were.
C3_IdempotentRedetection ==
    [][ (pc = "call_find_new_rows" /\ repeated') =>
            /\ exc' = "none"
            /\ new_entries' = <<>>
            /\ previous_row_count' = previous_row_count
            /\ previous_data' = previous_data ]_vars

\* C3 witness: a call with records has been repeated
C3_Witness ==
    pc = "call_find_new_rows" /\ repeated /\ current_count = 2

\* C4: after every call, on either path and whether or not rows were
\* returned (or the call raised), previous_row_count is the count argument
\* and previous_data the data argument of the call.
C4_StateFollowsArguments ==
    (pc = "call_find_new_rows" /\ calls >= 1) =>
        /\ previous_row_count = current_count
        /\ previous_data = current_data

\* C4 witness: a later call that found no new rows, with fewer records
\* than the call before it
C4_Witness ==
    /\ pc = "call_find_new_rows"
    /\ calls >= 2
    /\ count_before = 2
    /\ current_count = 1
    /\ new_entries = <<>>

---------------------------------------------------------------------------
(* Claim about get_sultra25_data, checked under SpecFilter *)

\* the test of the claim: index >= 3, at least 8 cells, cell 0 trimmed is
\* non-empty and all decimal digits, cell 5 trimmed is non-empty
claim_accepts(i, row) ==
    /\ i >= 3
    /\ Len(row) >= 8
    /\ strip(row[1]) # <<>>
    /\ \A k \in 1..Len(strip(row[1])) : strip(row[1])[k] \in DecimalDigits
    /\ strip(row[6]) # <<>>

\* the rows the claim accepts, in source order, projected
RECURSIVE claimed_from(_, _)
claimed_from(data, i) ==
    IF i >= Len(data) THEN <<>>
    ELSE (IF claim_accepts(i, data[i + 1])
          THEN << [no            |-> data[i + 1][1],
                   customer_name |-> data[i + 1][6],
                   segment       |-> data[i + 1][7],
                   am_hotda      |-> data[i + 1][8]] >>
          ELSE <<>>) \o claimed_from(data, i + 1)

\* C5 (as claimed): the output holds exactly the rows the test of the claim
\* accepts, in source order and projected, and the count returned is the
\* length of the output.
C5_FilterCorrectness ==
    pc = "filter_done" =>
        /\ current_data = claimed_from(all_data, 0)
        /\ current_count = Len(current_data)

---------------------------------------------------------------------------
(* Claims about the fan-out and the polling loop, checked under Spec *)

\* C6: whatever the outcomes of the sends, send_multiple_notifications
\* attempts one send per configured recipient, in configuration order, is
\* not cut short by a failure, raises nothing, and its success_count is the
\* number of attempts that succeeded.
C6_FanoutIndependence ==
    /\ exc \notin PostRaises
    /\ pc = "fanout" =>
        /\ chat_idx = Len(outcomes) + 1
        /\ chat_idx <= Len(chat_ids) + 1
        /\ Len(sent) >= Len(outcomes)
        /\ \A i \in 1..Len(outcomes) :
              sent[Len(sent) - Len(outcomes) + i] = <<entry_idx, chat_ids[i]>>
        /\ success_count =
              Cardinality({ i \in 1..Len(outcomes) : outcomes[i] = "ok200" })

\* C6 witness: the fan-out is about to return 1 after a failure for the
\* first recipient and a success for the second
C6_Witness ==
    /\ pc = "fanout"
    /\ chat_idx > Len(chat_ids)
    /\ outcomes = <<"Timeout", "ok200">>
    /\ success_count = 1

\* C7: the counter is the number of failed ticks in a row since the last
\* success or cooldown; the 300 sleep is taken exactly at the 5th of them,
\* and the counter is back at 0 when that sleep has ended; a success sets
\* it to 0 at once.
C7_BackoffEscalation ==
    /\ error_count = fails_in_run
    /\ fails_in_run <= 5
    /\ (sleep_dur = 300) <=> (fails_in_run = 5)
    /\ pc \notin Sleeping => error_count <= 4

\* C7 witness: the cooldown of the 5th failed tick in a row
C7_Witness ==
    pc = "sleep_cooldown" /\ sleep_dur = 300 /\ fails_in_run = 5

\* C8: a sleep is in progress exactly between two ticks; it is 15 after a
\* tick that raised nothing, with the counter at 0; 60 after a tick that
\* raised with the counter in 1..4; 300 with the counter at 5; and when it
\* ends the loop is at its fetch again.
C8_SleepByOutcome ==
    /\ [](/\ sleep_dur \in {0, 15, 60, 300}
          /\ (pc \in Sleeping) <=> (sleep_dur # 0)
          /\ sleep_dur = 15 => (exc = "none" /\ error_count = 0)
          /\ sleep_dur = 60 => (exc # "none" /\ error_count \in 1..4)
          /\ sleep_dur = 300 => (exc # "none" /\ error_count = 5)
          /\ pc \in Sleeping => (exc = "none" <=> sleep_dur = 15))
    /\ [][(sleep_dur # 0 /\ sleep_dur' = 0) => pc' = "fetch"]_vars

\* C8 witness: the 60 sleep after the 4th failed tick in a row
C8_Witness ==
    sleep_dur = 60 /\ error_count = 4 /\ exc # "none"

\* C9: a fetch that raises inside get_sultra25_data gives the tick no rows
\* and count 0, brings the loop to find_new_rows with the counter as it
\* was, and from then on the tick delivers nothing and raises nothing of its
\* own: unless a fault of another statement strikes, it ends in the 15
\* sleep with the counter at 0.
C9_FetchErrorContained ==
    /\ [](fetch_failed =>
            /\ current_data = <<>>
            /\ current_count = 0
            /\ new_entries = <<>>
            /\ sent = <<>>
            /\ pc \notin {"deliver", "fanout", "exit"}
            /\ exc \in {"none", "Fault"}
            /\ (exc = "none" /\ sleep_dur # 0) =>
                  (sleep_dur = 15 /\ error_count = 0))
    /\ [][(fetch_failed' /\ ~fetch_failed) =>
            (error_count' = error_count /\ pc' = "detect")]_vars

\* C9 witness: the tick lost its fetch, reset a baseline of 2 to 0 and is in
\* the 15 sleep
C9_Witness ==
    /\ fetch_failed
    /\ pc = "sleep_ok"
    /\ count_before = 2
    /\ previous_row_count = 0

\* C10: a send that fails leaves the counter as it is and the loop in the
\* fan-out, no exception of a send reaches the loop, and a tick whose sends
\* all failed and that raised nothing ends in the 15 sleep with the counter
\* at 0.
C10_DeliveryFailureNotCounted ==
    /\ [](/\ exc \notin PostRaises
          /\ (sleep_dur # 0 /\ sent # <<>> /\ ~any_delivered /\ exc = "none") =>
                (sleep_dur = 15 /\ error_count = 0))
    /\ [][(pc = "fanout" /\ Len(sent') > Len(sent)) =>
            (error_count' = error_count /\ exc' = exc /\ pc' = "fanout")]_vars

\* C10 witness: two recipients, both sends of the tick failed, one by an
\* exception, and the tick is in the 15 sleep with the counter at 0
C10_Witness ==
    /\ pc = "sleep_ok"
    /\ Len(sent) = 2
    /\ ~any_delivered
    /\ outcomes = <<"ConnectionError", "non200">>
    /\ error_count = 0

\* C11: when one of the four variables is unset or the empty string, main
\* ends in exit(1) as its first step, by the ValueError of validate_config
\* or, when the recipient variable is malformed too, by the JSONDecodeError
\* of the line that reads it: no fetch and no send was made, the initial
\* load and the loop are never reached, and the monitor's state is as
\* __init__ assigned it.
C11_StartupConfigFailure ==
    (/\ \/ falsy(env.token)
        \/ falsy(env.chat)
        \/ falsy(env.url)
        \/ falsy(env.creds)
     /\ pc # "main")
        => /\ pc = "exit"
           /\ exc \in {"ValueError", "JSONDecodeError"}
           /\ ~io_done
           /\ previous_row_count = 0
           /\ sent = <<>>
           /\ error_count = 0

\* C11 witness: only the bot token is the empty string, and main has exited
\* without a fetch or a send
C11_Witness ==
    /\ pc = "exit"
    /\ env.token = EmptyString
    /\ env.chat = Given
    /\ env.url = Given
    /\ env.creds = Given
    /\ ~io_done

\* C12: on a sheet that is only appended to, previous_row_count at the end
\* of a cycle is at least what it was at the end of the cycle before,
\* whether the fetch of the cycle succeeded or failed.  (count_before is the
\* count the cycle's find_new_rows call found retained; a cycle that does
\* not reach the call leaves the count as it is.)
C12_CountNeverDecreases ==
    previous_row_count >= count_before

\* C13: the cycle before lost its fetch and so retained a count of 0; this
\* cycle's fetch succeeded with C > 0 records and its find_new_rows call
\* returned: the call returned all C records as new, and when the cycle has
\* ended every one of them was sent to every recipient.
C13_RecoveryStorm ==
    (/\ prev_tick = "fetch_failed"
     /\ ~fetch_failed
     /\ current_count > 0
     /\ count_before = 0
     /\ exc = "none"
     /\ pc \in {"deliver", "fanout", "tick_ok", "sleep_ok"})
        => /\ new_entries = current_data
           /\ pc = "sleep_ok" => Len(sent) = current_count * Len(chat_ids)

\* C14: on a sheet that is only appended to, whatever fetches and sends
\* fail, no record is returned as new by two find_new_rows calls, and no
\* record is sent twice to the same entry of chat_ids, in the same cycle or
\* a later one; every send is for a record that was returned as new.
C14_NoRedelivery ==
    /\ ~again
    /\ \A a \in attempted : a[1] \in detected /\ a[2] \in 1..Len(chat_ids)
    /\ fanned \subseteq detected

\* C14 witness: two records were detected in two different cycles, each was
\* sent once to each of two recipients, and both sends of the second cycle
\* failed; the cycle is over
C14_Witness ==
    /\ pc = "sleep_ok"
    /\ Cardinality(detected) = 2
    /\ Len(new_pos) = 1
    /\ Cardinality(attempted) = 4
    /\ Len(sent) = 2
    /\ ~any_delivered

\* C15: on a sheet that is only appended to, with no failed fetch, no
\* exception from outside the program and a baseline of at least 1 record:
\* no tick raises; no record is returned as new twice and none of the
\* baseline is ever returned; once find_new_rows has run in a cycle, every
\* record of the cycle's fetch past the baseline has been returned (so a
\* record is returned in the first cycle whose fetch holds it); and when the
\* cycle ends a fan-out was started for each of them and one send made to
\* every entry of chat_ids.
C15_ExactlyOnceDetection ==
    baseline >= 1 =>
        /\ exc = "none"
        /\ ~again
        /\ detected \cap (1..baseline) = {}
        /\ pc \in {"fetch", "detect"} =>
              /\ detected = (baseline + 1)..previous_row_count
              /\ fanned = detected
        /\ pc \in {"deliver", "fanout", "tick_ok", "sleep_ok"} =>
              detected = (baseline + 1)..current_count
        /\ pc \in {"tick_ok", "sleep_ok"} =>
              /\ fanned = detected
              /\ attempted = detected \X (1..Len(chat_ids))

\* C15 witness: a baseline of 1 record, then two records appended and
\* detected in two different cycles, the second cycle now asleep
C15_Witness ==
    /\ baseline = 1
    /\ detected = {2, 3}
    /\ Len(new_pos) = 1
    /\ fanned = {2, 3}
    /\ pc = "sleep_ok"

\* C16: whenever an entry is about to be formatted or a send was made, the
\* retained count and data are already those of the cycle's fetch; they
\* still are after the cycle was aborted by an exception in the delivery
\* loop; and the cycle after such an abort, the sheet unchanged in between,
\* gets nothing from find_new_rows and sends nothing.
C16_StateAdvancedBeforeDelivery ==
    /\ (pc \in {"deliver", "fanout"} \/ sent # <<>>) =>
          /\ previous_row_count = current_count
          /\ previous_data = current_data
    /\ (exc = "Fault" /\ new_entries # <<>>) =>
          /\ previous_row_count = current_count
          /\ previous_data = current_data
    /\ (prev_tick = "aborted" /\ pc \notin {"fetch", "detect", "except"} /\ exc = "none") =>
          /\ pc \in {"tick_ok", "sleep_ok"}
          /\ new_entries = <<>>
          /\ sent = <<>>

\* C16 witness: the cycle before was aborted in the delivery loop with
\* entries left, the sheet was not edited, and this cycle, after the 60
\* sleep, fetched the same 2 records and found nothing new
C16_Witness ==
    /\ prev_tick = "aborted"
    /\ pc = "tick_ok"
    /\ error_count = 1
    /\ ~fetch_failed
    /\ current_count = 2
    /\ previous_row_count = 2
    /\ new_entries = <<>>

\* C17: the consecutive-error counter is always in 0..5; it is in 0..4 when
\* a tick starts and all through the tick; it is 5 only during the 300
\* cooldown; and no sleep is longer than 300.
C17_BackoffCapped ==
    /\ error_count \in 0..ErrorThreshold
    /\ pc \in {"fetch", "detect", "deliver", "fanout", "tick_ok", "except"} =>
          error_count \in 0..(ErrorThreshold - 1)
    /\ error_count = ErrorThreshold =>
          /\ pc = "sleep_cooldown"
          /\ sleep_dur = Cooldown
    /\ sleep_dur <= Cooldown

\* C17 witness: the cycle before was aborted and this one raised too, yet
\* the counter is 1 in the 60 sleep: the abort was the 5th failure in a row
\* and the cooldown has reset the counter
C17_Witness ==
    /\ prev_tick = "aborted"
    /\ pc = "sleep_retry"
    /\ exc = "Fault"
    /\ error_count = 1
    /\ sleep_dur = RetryInterval

\* C18: the entries of a tick are the last records of the fetch in the
\* order of the fetch; the k-th send of the tick is for entry
\* (k-1) div n + 1 and goes to chat_ids[(k-1) mod n + 1], n the number of
\* recipients, so all sends of an entry come before any send of the next;
\* and the message being sent is the one formatted from the entry at hand.
\* (The program is one thread; the model has one control position, so no
\* two of its fetches and sends overlap.)
C18_SequentialDelivery ==
    LET n == Len(chat_ids) IN
    /\ Len(new_pos) = Len(new_entries)
    /\ \A i \in 1..Len(new_entries) :
          /\ new_pos[i] = Len(current_data) - Len(new_entries) + i
          /\ new_entries[i] = current_data[new_pos[i]]
    /\ \A k \in 1..Len(sent) :
          /\ n > 0
          /\ sent[k] = <<((k - 1) \div n) + 1, chat_ids[((k - 1) % n) + 1]>>
    /\ pc = "fanout" =>
          /\ Len(sent) = (entry_idx - 1) * n + (chat_idx - 1)
          /\ message = format_notification(new_entries[entry_idx])
    /\ pc = "deliver" => Len(sent) = (entry_idx - 1) * n
    /\ (pc \in {"tick_ok", "sleep_ok"}) => Len(sent) = Len(new_entries) * n

\* C18 witness: two new records and two recipients; the four sends were
\* made record by record, each to recipient 1 and then recipient 2
C18_Witness ==
    /\ pc = "tick_ok"
    /\ Len(new_entries) = 2
    /\ new_pos = <<2, 3>>
    /\ sent = << <<1, 1>>, <<1, 2>>, <<2, 1>>, <<2, 2>> >>

\* C19: the loop never reaches a terminal state; every tick is followed by a
\* sleep and every sleep by the fetch of another tick, whatever the ticks'
\* outcomes; and the consecutive-error counter is 0 again and again, even
\* when every tick fails.
C19_LoopNeverEnds ==
    /\ [](pc # "exit")
    /\ (pc = "fetch") ~> (pc \in Sleeping)
    /\ (pc \in Sleeping) ~> (pc \in {"detect", "except"})
    /\ []<>(error_count = 0)

\* C19 witness: a tick was aborted, the cooldown reset the counter, and the
\* fetch of the next tick has been made
C19_Witness ==
    /\ prev_tick = "aborted"
    /\ pc = "detect"
    /\ error_count = 0
    /\ ~fetch_failed

====
